---- MODULE Spec2Model ----
(***************************************************************************)
(* Model of the storage access layer of indexed-db-example:                *)
(*   UserPreferencesStoreManager (Collection Store) and DatabaseManager    *)
(*   (Connection Manager), running in several tabs against one IndexedDB   *)
(*   database.                                                             *)
(*                                                                         *)
(* Granularity.  One action is one browser task: a call made by the page,  *)
(* an engine event with the handler the code registered for it, a timer,   *)
(* or a broadcast message.  Within a task the code runs to its next await  *)
(* on a promise that is still pending; a promise that settles resumes its  *)
(* waiters, in the order they started waiting, within the same task.       *)
(***************************************************************************)
EXTENDS Naturals, Integers, Sequences, FiniteSets, TLC

\* ------------------------------------------------------------------ bounds
MaxCalls  == 2   \* Spec: calls the page makes in one run
MaxOpens  == 3   \* Spec: indexedDB.open requests in one run
MaxTabCalls == 3 \* SpecTabs: calls
MaxTabOpens == 4 \* SpecTabs: open requests
MaxForced == 1   \* SpecTabs: abnormal closes of a connection by the engine
MaxMsgs   == 1   \* broadcast messages waiting in one tab
MaxStoreCalls == 2   \* SpecStore: calls on the Collection Store
MaxStoreOpens == 2   \* SpecStore: open requests
MaxMergeCalls == 3   \* SpecMerge: calls on the Collection Store
MaxMergeOpens == 2   \* SpecMerge: open requests
MaxRetryCalls == 2   \* SpecRetry: calls
MaxRetryOpens == 6   \* SpecRetry: open requests (and abnormal closes)
MaxListenCalls == 2  \* SpecListen: calls
MaxListenOpens == 3  \* SpecListen: open requests

\* ------------------------------------------------------- program constants
maxRetries == 3

Tabs       == {1, 2}
DB_NAME    == "CLIENT_APP_DATABASE"
DbNames    == {DB_NAME, "OTHER_DATABASE"}
STORE_NAME == "userPreferences"
OtherStore == "drafts"
StoreNames == {STORE_NAME, OtherStore}
Owners     == {"A", "B"}
Fields     == {"a", "b"}
Vals       == {"1", "2"}
Callbacks  == {"cb1", "cb2"}
Undefined  == "undefined"
Null       == "null"

EmptyMap   == [f \in Fields |-> Undefined]
NoRecord   == [present |-> FALSE, value |-> EmptyMap]
\* The value objects the page passes to set(): {[key]: value} (App.jsx:96).
OneField(k, v) == [f \in Fields |-> IF f = k THEN v ELSE Undefined]
SetArgs    == {OneField(k, v) : k \in Fields, v \in Vals}

VARIABLES
  dbVersion,     \* version of the database (0: it does not exist yet)
  objectStores,  \* per collection: exists, keyPath, records by key
  mgr,           \* per tab: the fields of the DatabaseManager of DB_NAME
  insts,         \* UserPreferencesStoreManager objects ever constructed
  instance,      \* per tab: UserPreferencesStoreManager.instance (0: null)
  conns,         \* IDBDatabase connections ever opened
  opens,         \* IDBOpenDBRequests ever made, with the promise of each
  calls,         \* async calls made by the page, each with its position
  vcQueue,       \* connections with a versionchange event still to fire
  msgs,          \* per tab: VERSION_CHANGE messages waiting on the channel
  nForced,       \* abnormal closes so far
  nTx,           \* transactions created so far
  page,          \* per tab: the unregister functions the page holds, and
                 \* how often each of its callbacks has been invoked
  registry       \* DatabaseManager.instances of each tab, the managers ever
                 \* constructed, and the manager each call handed out

vars == <<dbVersion, objectStores, mgr, insts, instance, conns, opens, calls,
          vcQueue, msgs, nForced, nTx, page, registry>>

\* The whole state as one value, so that the code's sequential steps compose.
World == [ver |-> dbVersion, stores |-> objectStores, mgr |-> mgr,
          insts |-> insts, instance |-> instance, conns |-> conns,
          opens |-> opens, calls |-> calls, vcq |-> vcQueue, msgs |-> msgs,
          forced |-> nForced, ntx |-> nTx, page |-> page,
          registry |-> registry]

SetWorld(w) ==
  /\ dbVersion' = w.ver
  /\ objectStores' = w.stores
  /\ mgr' = w.mgr
  /\ insts' = w.insts
  /\ instance' = w.instance
  /\ conns' = w.conns
  /\ opens' = w.opens
  /\ calls' = w.calls
  /\ vcQueue' = w.vcq
  /\ msgs' = w.msgs
  /\ nForced' = w.forced
  /\ nTx' = w.ntx
  /\ page' = w.page
  /\ registry' = w.registry

\* ------------------------------------------------------------ constructors
NewManager == [db |-> 0, isInitialized |-> FALSE, connPromise |-> 0,
               connectionRetryCount |-> 0, versionChangeListeners |-> {},
               retryDelay |-> Undefined]

NewStoreManager(t, username) ==
  [tab |-> t, username |-> username, isInitialized |-> FALSE]

NewStore == [exists |-> FALSE, keyPath |-> "", records |-> [o \in Owners |-> NoRecord]]

NewOpen(t, kind, version, store, keyPath) ==
  [tab |-> t, kind |-> kind, version |-> version, store |-> store,
   keyPath |-> keyPath, state |-> "queued", conn |-> 0, error |-> "",
   waiters |-> <<>>, existed |-> FALSE]

NewCall(t, op) ==
  [tab |-> t, op |-> op, pc |-> "run", status |-> "pending", result |-> "",
   rec |-> NoRecord, conn |-> 0, inst |-> 0, store |-> STORE_NAME,
   owner |-> "A", field |-> "a", value |-> EmptyMap, mode |-> "readonly",
   await |-> 0, retries |-> 0, tx |-> 0, txConn |-> 0, txState |-> "none",
   keyPath |-> "", ver0 |-> 0, username |-> "", prior |-> {},
   caught |-> "", delays |-> <<>>]

\* ------------------------------------------------------------- error names
FailedToOpen   == "Failed to open database"
MaxRetryError  == "Max retry attempts reached for database connection"
ConnectionLost == "Database connection lost"
TxAborted      == "Transaction was aborted"
StaleErrors    == {"InvalidStateError", ConnectionLost}

Settled(o) == o.state \in {"success", "error"}

ResolveCall(w, c, result) ==
  [w EXCEPT !.calls[c].status = "resolved", !.calls[c].result = result,
            !.calls[c].pc = "done"]

Reject(w, c, err) ==
  [w EXCEPT !.calls[c].status = "rejected", !.calls[c].result = err,
            !.calls[c].pc = "done"]

CloseConn(w, cn) == IF cn = 0 THEN w ELSE [w EXCEPT !.conns[cn].closed = TRUE]

\* DatabaseManager.initialize(), lines 150-182: the promise it returns (the
\* promise of an open request is named by the request's index in opens).
\* A manager that never sees a connection attempt in flight (no coalescing).
NeverInFlight(w, t) == FALSE

\* Line 151: a connection promise is held.
ConnectionInFlight(w, t) == w.mgr[t].connPromise # 0

InitializePromise(w, t) ==
  IF ConnectionInFlight(w, t) THEN w.mgr[t].connPromise ELSE Len(w.opens) + 1

InitializeWorld(w, t) ==
  IF ConnectionInFlight(w, t) THEN w
  ELSE [w EXCEPT !.opens = Append(@, NewOpen(t, "init", 0, "", "")),
                 !.mgr[t].connPromise = Len(w.opens) + 1]

\* DatabaseManager.createObjectStore(), lines 184-194, up to the open request.
CreateVersion(w, t) ==
  (IF w.mgr[t].db # 0 THEN w.conns[w.mgr[t].db].version ELSE 0) + 1

CreateObjectStore(w, t, storeName, keyPath) ==
  LET newVersion == CreateVersion(w, t)
      w1 == [CloseConn(w, w.mgr[t].db) EXCEPT !.mgr[t].db = 0]
  IN [w1 EXCEPT !.opens = Append(@,
        [NewOpen(t, "create", newVersion, storeName, keyPath) EXCEPT
           !.existed = w.stores[storeName].exists])]

\* Line 226: this.retryDelay * this.connectionRetryCount.  No line assigns
\* retryDelay, so the product is undefined * n = NaN.
RetryDelayProduct(retryDelay, n) ==
  IF retryDelay = Undefined THEN "NaN" ELSE retryDelay * n

\* setTimeout(f, delay): a delay that is not a number counts as 0.
TimeoutDelay(delay) == IF delay = "NaN" THEN 0 ELSE delay

\* DatabaseManager._retryConnection(), lines 220-226, up to the timer.
RetryConnection(w, c) ==
  LET t == w.calls[c].tab
      n == w.mgr[t].connectionRetryCount + 1
  IN
  IF w.mgr[t].connectionRetryCount >= maxRetries
  THEN Reject(w, c, MaxRetryError)
  ELSE [w EXCEPT !.mgr[t].connectionRetryCount = n,
                 !.calls[c].retries = @ + 1,
                 !.calls[c].delays = Append(@,
                    TimeoutDelay(RetryDelayProduct(w.mgr[t].retryDelay, n))),
                 !.calls[c].pc = "r_timer"]

\* DatabaseManager.transaction(), the catch block, lines 261-275.  A
\* NotFoundError reaches line 271, where objectStoreNames (a DOMStringList)
\* has no includes method, so the call throws a TypeError instead.
TransactionCatch(w, c, err) ==
  LET w1 == [w EXCEPT !.calls[c].caught = err] IN
  IF err \in StaleErrors THEN RetryConnection(w1, c)
  ELSE IF err = "NotFoundError" THEN Reject(w1, c, "TypeError")
  ELSE Reject(w1, c, err)

\* The code that runs once transaction() has its IDBTransaction: lines
\* 249-259, then the caller's request (lines 284-290, 299-305).
IsRead(op)  == op \in {"getStoreValue", "get"}
IsWrite(op) == op \in {"setStoreValue", "set"}

TransactionCreated(w, c) ==
  LET call == w.calls[c]
      t == call.tab
      w1 == [w EXCEPT !.ntx = @ + 1, !.calls[c].tx = w.ntx + 1,
                      !.calls[c].txConn = w.mgr[t].db,
                      !.calls[c].txState = "active"]
  IN IF call.op = "transaction"
     THEN [ResolveCall(w1, c, "transaction") EXCEPT !.calls[c].txState = "complete"]
     ELSE IF IsWrite(call.op) /\ w.stores[call.store].keyPath # "username"
     THEN [Reject(w1, c, "DataError") EXCEPT !.calls[c].txState = "complete"]
     ELSE [w1 EXCEPT !.calls[c].pc = "tx_req"]

\* Lines 242-246: the connection check and db.transaction(storeNames, mode).
TransactionError(w, c) ==
  LET call == w.calls[c]
      db == w.mgr[call.tab].db
  IN IF db = 0 THEN ConnectionLost
     ELSE IF w.conns[db].closed THEN "InvalidStateError"
     ELSE IF call.store \notin w.conns[db].stores THEN "NotFoundError"
     ELSE ""

TransactionOpen(w, c) ==
  IF TransactionError(w, c) = "" THEN TransactionCreated(w, c)
  ELSE TransactionCatch(w, c, TransactionError(w, c))

RECURSIVE Resume(_, _, _)

\* await on the promise of open request p: a settled promise resumes the
\* call in the same task, a pending one suspends it.
AwaitOpen(w, c, p, pcName) ==
  LET w1 == [w EXCEPT !.calls[c].pc = pcName, !.calls[c].await = p] IN
  IF Settled(w1.opens[p]) THEN Resume(w1, c, p)
  ELSE [w1 EXCEPT !.opens[p].waiters = Append(@, c)]

AwaitInitialize(w, c, pcName) ==
  LET t == w.calls[c].tab IN
  AwaitOpen(InitializeWorld(w, t), c, InitializePromise(w, t), pcName)

\* DatabaseManager.transaction(), lines 236-240.
Transaction(w, c) ==
  IF ~w.mgr[w.calls[c].tab].isInitialized THEN AwaitInitialize(w, c, "t_init")
  ELSE TransactionOpen(w, c)

\* DatabaseManager.getStoreValue / setStoreValue, lines 278-283, 293-298.
StoreValue(w, c) ==
  IF ~w.mgr[w.calls[c].tab].isInitialized THEN AwaitInitialize(w, c, "m_init")
  ELSE Transaction(w, c)

\* UserPreferencesStoreManager.initialize(), line 46 and what follows it in
\* get (line 61) and set (line 73).
StoreInitialized(w, c) ==
  LET w1 == [w EXCEPT !.insts[w.calls[c].inst].isInitialized = TRUE] IN
  IF w.calls[c].op = "storeInitialize" THEN ResolveCall(w1, c, "ok")
  ELSE StoreValue(w1, c)

\* UserPreferencesStoreManager.initialize(), lines 40-44.
StoreInitializeCheck(w, c) ==
  LET call == w.calls[c]
      t == call.tab
      db == w.mgr[t].db
  IN IF db = 0 THEN Reject(w, c, "TypeError")
     ELSE IF call.store \notin w.conns[db].stores
     THEN AwaitOpen(CreateObjectStore(w, t, call.store, "username"), c,
                    Len(w.opens) + 1, "si_create")
     ELSE StoreInitialized(w, c)

\* UserPreferencesStoreManager.initialize / get / set, lines 32-38, 56-59,
\* 68-71.
StoreEnter(w, c) ==
  IF w.insts[w.calls[c].inst].isInitialized
  THEN (IF w.calls[c].op = "storeInitialize" THEN ResolveCall(w, c, "ok")
        ELSE StoreValue(w, c))
  ELSE AwaitInitialize(w, c, "si_init")

\* The continuation of call c once the open promise p it awaits has settled.
Resume(w, c, p) ==
  LET pc == w.calls[c].pc
      o  == w.opens[p]
      ok == o.state = "success"
      w0 == w
  IN CASE pc = "i_wait" ->
            IF ok THEN [ResolveCall(w0, c, "db") EXCEPT !.calls[c].conn = o.conn]
            ELSE Reject(w0, c, FailedToOpen)
       [] pc = "c_wait" ->
            IF ok THEN [ResolveCall(w0, c, "db") EXCEPT !.calls[c].conn = o.conn]
            ELSE Reject(w0, c, o.error)
       [] pc = "si_init" ->
            IF ok THEN StoreInitializeCheck(w0, c) ELSE Reject(w0, c, FailedToOpen)
       [] pc = "si_create" ->
            IF ok THEN StoreInitialized(w0, c) ELSE Reject(w0, c, o.error)
       [] pc = "m_init" ->
            IF ok THEN Transaction(w0, c) ELSE Reject(w0, c, FailedToOpen)
       [] pc = "t_init" ->
            IF ok THEN TransactionOpen(w0, c) ELSE TransactionCatch(w0, c, FailedToOpen)
       [] pc = "r_init" ->
            IF ok THEN Transaction(w0, c) ELSE Reject(w0, c, FailedToOpen)
       [] OTHER -> w0

\* A settled promise runs its reactions in the order they were attached.
RECURSIVE ResumeAll(_, _, _)
ResumeAll(w, p, waiters) ==
  IF waiters = <<>> THEN w
  ELSE ResumeAll(Resume(w, Head(waiters), p), p, Tail(waiters))

\* ------------------------------------------------------------------ bounds
Bounded(w, maxCalls, maxOpens) ==
  /\ Len(w.calls) <= maxCalls
  /\ Len(w.opens) <= maxOpens
  /\ \A t \in Tabs : w.msgs[t] <= MaxMsgs

Step(w, maxCalls, maxOpens) == Bounded(w, maxCalls, maxOpens) /\ SetWorld(w)

\* --------------------------------------------------- calls the page makes
AddCall(w, call) ==
  [w EXCEPT !.calls = Append(@, [call EXCEPT
     !.prior = {d \in 1..Len(w.calls) : w.calls[d].status = "resolved"}])]

\* dbManager.initialize()
CallInitialize(t, maxCalls, maxOpens) ==
  LET c == Len(calls) + 1 IN
  Step(AwaitInitialize(AddCall(World, NewCall(t, "initialize")), c, "i_wait"),
       maxCalls, maxOpens)

\* dbManager.createObjectStore(storeName, options)
CallCreateObjectStore(t, storeName, keyPath, maxCalls, maxOpens) ==
  LET c == Len(calls) + 1
      call == [NewCall(t, "createObjectStore") EXCEPT !.store = storeName,
                 !.keyPath = keyPath, !.ver0 = dbVersion]
      w1 == CreateObjectStore(AddCall(World, call), t, storeName, keyPath)
  IN Step(AwaitOpen(w1, c, Len(opens) + 1, "c_wait"), maxCalls, maxOpens)

\* dbManager.transaction / getStoreValue / setStoreValue
CallManager(t, op, storeName, owner, value, maxCalls, maxOpens) ==
  LET c == Len(calls) + 1
      call == [NewCall(t, op) EXCEPT !.store = storeName, !.owner = owner,
                 !.value = value,
                 !.mode = IF IsWrite(op) THEN "readwrite" ELSE "readonly"]
      w1 == AddCall(World, call)
  IN Step(IF op = "transaction" THEN Transaction(w1, c) ELSE StoreValue(w1, c),
          maxCalls, maxOpens)

\* ------------------------------------------- the DatabaseManager registry
\* A constructor that never finds a registered manager.
ConstructorHasNone(reg, t, dbName) == FALSE

\* Line 89: DatabaseManager.instances.has(dbName), in the constructor.
ConstructorHas(reg, t, dbName) == reg.instances[t][dbName] # 0

\* new DatabaseManager(dbName), lines 88-107: the object the expression yields
\* (the registered one, returned by the constructor, or the new one).
ConstructorResult(reg, t, dbName) ==
  IF ConstructorHas(reg, t, dbName) THEN reg.instances[t][dbName]
  ELSE Len(reg.managers) + 1

\* The constructor's effects: a new manager with its own BroadcastChannel,
\* registered under its name (line 105).
Constructor(reg, t, dbName) ==
  IF ConstructorHas(reg, t, dbName) THEN reg
  ELSE [reg EXCEPT !.managers = Append(@, [tab |-> t, dbName |-> dbName]),
                   !.instances[t][dbName] = Len(reg.managers) + 1]

\* DatabaseManager.getInstance(dbName), lines 109-114.
DatabaseManagerGetInstance(reg, t, dbName) ==
  IF reg.instances[t][dbName] = 0
  THEN [Constructor(reg, t, dbName) EXCEPT
          !.instances[t][dbName] = ConstructorResult(reg, t, dbName)]
  ELSE reg

Returned(reg, t, dbName, via, m) ==
  [reg EXCEPT !.returned = @ \cup
     {[tab |-> t, dbName |-> dbName, via |-> via, manager |-> m]}]

\* The page evaluates DatabaseManager.getInstance(dbName).
CallGetInstance(t, dbName) ==
  /\ LET reg == DatabaseManagerGetInstance(registry, t, dbName) IN
     registry' = Returned(reg, t, dbName, "getInstance",
                          reg.instances[t][dbName])
  /\ UNCHANGED <<dbVersion, objectStores, mgr, insts, instance, conns, opens,
                 calls, vcQueue, msgs, nForced, nTx, page>>

\* The page evaluates new DatabaseManager(dbName).
CallNew(t, dbName) ==
  /\ registry' = Returned(Constructor(registry, t, dbName), t, dbName, "new",
                          ConstructorResult(registry, t, dbName))
  /\ UNCHANGED <<dbVersion, objectStores, mgr, insts, instance, conns, opens,
                 calls, vcQueue, msgs, nForced, nTx, page>>

\* A getInstance that keeps whatever instance it has.
ReusesAnyInstance(w, t, username) == w.instance[t] # 0

\* UserPreferencesStoreManager.getInstance(username), lines 8-17.
ReusesInstance(w, t, username) ==
  /\ w.instance[t] # 0
  /\ w.insts[w.instance[t]].username = username

GetInstance(w, t, username) ==
  IF ReusesInstance(w, t, username) THEN w
  ELSE [w EXCEPT !.insts = Append(@, NewStoreManager(t, username)),
                 !.instance[t] = Len(w.insts) + 1,
                 !.registry = DatabaseManagerGetInstance(@, t, DB_NAME)]

\* UserPreferencesStoreManager.getInstance(username).initialize() / get(key)
\* / set(value)
CallStore(t, username, op, field, value, maxCalls, maxOpens) ==
  LET c == Len(calls) + 1
      w1 == GetInstance(World, t, username)
      call == [NewCall(t, op) EXCEPT !.inst = w1.instance[t],
                 !.owner = w1.insts[w1.instance[t]].username,
                 !.username = username, !.field = field, !.value = value,
                 !.mode = IF IsWrite(op) THEN "readwrite" ELSE "readonly"]
  IN Step(StoreEnter(AddCall(w1, call), c), maxCalls, maxOpens)

\* ----------------------------------------------- the engine: open requests
\* Open requests on one database are served in the order they were made.
HeadOpen == IF \E r \in 1..Len(opens) : ~Settled(opens[r])
            THEN CHOOSE r \in 1..Len(opens) :
                   /\ ~Settled(opens[r])
                   /\ \A q \in 1..(r - 1) : Settled(opens[q])
            ELSE 0

\* The version an open request ends at: the one asked for, or the current
\* one (1 for a database that does not exist yet).
TargetVersion(o) ==
  IF o.version # 0 THEN o.version ELSE IF dbVersion = 0 THEN 1 ELSE dbVersion

OpenConns == {cn \in 1..Len(conns) : ~conns[cn].closed}

LiveTx(call) == call.txState \in {"active", "done"}

\* An upgrade is due: every open connection is sent a versionchange event.
OpenFireVersionChange(r) ==
  /\ r = HeadOpen
  /\ opens[r].state = "queued"
  /\ TargetVersion(opens[r]) > dbVersion
  /\ OpenConns # {}
  /\ opens' = [opens EXCEPT ![r].state = "fired"]
  /\ vcQueue' = vcQueue \cup OpenConns
  /\ UNCHANGED <<dbVersion, objectStores, mgr, insts, instance, conns, calls,
                 msgs, nForced, nTx, page, registry>>

\* request.onsuccess of initialize() (lines 164-178) and of
\* createObjectStore() (lines 203-207), on the new connection cn.
OnOpenSuccess(w, r, cn) ==
  LET t == w.opens[r].tab
      w1 == [w EXCEPT !.mgr[t].db = cn, !.mgr[t].isInitialized = TRUE]
  IN IF w.opens[r].kind = "init"
     THEN [w1 EXCEPT !.conns[cn].handler = TRUE]
     ELSE w1

\* request.onupgradeneeded of createObjectStore(), lines 196-201.
OnUpgradeNeeded(stores, o) ==
  IF o.kind = "create" /\ ~stores[o.store].exists
  THEN [stores EXCEPT ![o.store].exists = TRUE, ![o.store].keyPath = o.keyPath]
  ELSE stores

\* The engine grants open request r; early: the engine has already closed
\* the connection abnormally when the success event is dispatched.
OpenSuccess(r, early, maxForced, maxCalls, maxOpens) ==
  /\ r = HeadOpen
  /\ TargetVersion(opens[r]) >= dbVersion
  /\ early => nForced < maxForced
  /\ TargetVersion(opens[r]) > dbVersion =>
       /\ OpenConns = {}
       /\ \A c \in 1..Len(calls) : ~LiveTx(calls[c])
  /\ LET o == opens[r]
         v == TargetVersion(o)
         cn == Len(conns) + 1
         stores1 == IF v > dbVersion THEN OnUpgradeNeeded(objectStores, o)
                    ELSE objectStores
         conn == [tab |-> o.tab, version |-> v,
                  stores |-> {s \in StoreNames : stores1[s].exists},
                  closed |-> early, forced |-> early, handler |-> FALSE]
         w1 == [World EXCEPT !.ver = v, !.stores = stores1,
                  !.conns = Append(@, conn),
                  !.forced = IF early THEN @ + 1 ELSE @,
                  !.vcq = IF v > dbVersion THEN {} ELSE @,
                  !.opens[r].state = "success", !.opens[r].conn = cn]
     IN Step(ResumeAll(OnOpenSuccess(w1, r, cn), r, o.waiters), maxCalls, maxOpens)

\* An onerror that keeps the failed connection promise.
OnOpenErrorKeepsPromise(w, r) ==
  IF w.opens[r].kind = "init"
  THEN [w EXCEPT !.mgr[w.opens[r].tab].isInitialized = FALSE]
  ELSE w

\* request.onerror of initialize() (lines 158-162) and of createObjectStore()
\* (line 209).
OnOpenError(w, r) ==
  IF w.opens[r].kind = "init"
  THEN [w EXCEPT !.mgr[w.opens[r].tab].isInitialized = FALSE,
                 !.mgr[w.opens[r].tab].connPromise = 0]
  ELSE w

\* The engine refuses open request r: a version below the current one is a
\* VersionError, anything else an engine failure.
OpenError(r, maxCalls, maxOpens) ==
  /\ r = HeadOpen
  /\ LET err == IF TargetVersion(opens[r]) < dbVersion THEN "VersionError"
                ELSE "UnknownError"
         w1 == [World EXCEPT !.opens[r].state = "error", !.opens[r].error = err]
     IN Step(ResumeAll(OnOpenError(w1, r), r, opens[r].waiters), maxCalls, maxOpens)

\* ------------------------------------------------- version-change signals
PostMessage(w, t) ==
  [w EXCEPT !.msgs = [u \in Tabs |-> IF u = t THEN @[u] ELSE @[u] + 1]]

\* db.onversionchange, lines 168-175, on the manager of the tab.  The handler
\* closes this.db, whichever connection the event was fired at; with this.db
\* null the first statement throws and the rest does not run.
OnVersionChange(w, t) ==
  IF w.mgr[t].db = 0 THEN w
  ELSE PostMessage([CloseConn(w, w.mgr[t].db) EXCEPT
                      !.mgr[t].isInitialized = FALSE,
                      !.mgr[t].connPromise = 0], t)

DeliverVersionChange(cn, maxCalls, maxOpens) ==
  /\ cn \in vcQueue
  /\ LET w1 == [World EXCEPT !.vcq = @ \ {cn}] IN
     Step(IF ~conns[cn].closed /\ conns[cn].handler
          THEN OnVersionChange(w1, conns[cn].tab) ELSE w1, maxCalls, maxOpens)

\* Line 141: every registered listener is called.
InvokeListeners(w, t) ==
  [w EXCEPT !.page[t].invoked =
     [cb \in Callbacks |->
        IF cb \in w.mgr[t].versionChangeListeners THEN @[cb] + 1 ELSE @[cb]]]

\* DatabaseManager._handleVersionChange(), lines 139-148.
HandleVersionChange(w, t) ==
  IF w.mgr[t].db = 0 THEN w
  ELSE InitializeWorld([CloseConn(InvokeListeners(w, t), w.mgr[t].db) EXCEPT
                          !.mgr[t].db = 0,
                          !.mgr[t].isInitialized = FALSE,
                          !.mgr[t].connPromise = 0], t)

\* broadcastChannel.onmessage, lines 128-132.
DeliverBroadcast(t, maxCalls, maxOpens) ==
  /\ msgs[t] > 0
  /\ Step(HandleVersionChange([World EXCEPT !.msgs[t] = @ - 1], t),
          maxCalls, maxOpens)

\* DatabaseManager.onVersionChange(callback), lines 213-218: the page calls
\* it and keeps the unregister function it returns.
CallOnVersionChange(t, cb) ==
  /\ mgr' = [mgr EXCEPT ![t].versionChangeListeners = @ \cup {cb}]
  /\ page' = [page EXCEPT ![t].unregister = @ \cup {cb}]
  /\ UNCHANGED <<dbVersion, objectStores, insts, instance, conns, opens,
                 calls, vcQueue, msgs, nForced, nTx, registry>>

\* The page calls an unregister function it holds (lines 215-217).
CallUnregister(t, cb) ==
  /\ cb \in page[t].unregister
  /\ mgr' = [mgr EXCEPT ![t].versionChangeListeners = @ \ {cb}]
  /\ UNCHANGED <<dbVersion, objectStores, insts, instance, conns, opens,
                 calls, vcQueue, msgs, nForced, nTx, page, registry>>

\* The engine closes an open connection abnormally (its close event has no
\* handler in this code).
ForcedClose(cn, maxForced) ==
  /\ cn \in OpenConns
  /\ nForced < maxForced
  /\ conns' = [conns EXCEPT ![cn].closed = TRUE, ![cn].forced = TRUE]
  /\ nForced' = nForced + 1
  /\ UNCHANGED <<dbVersion, objectStores, mgr, insts, instance, opens, calls,
                 vcQueue, msgs, nTx, page, registry>>

\* ----------------------------------------------------------- retry timer
\* DatabaseManager._retryConnection(), lines 228-233, once the timer fires.
RetryAfterDelay(w, c) ==
  LET t == w.calls[c].tab IN
  AwaitInitialize([w EXCEPT !.mgr[t].db = 0,
                            !.mgr[t].isInitialized = FALSE,
                            !.mgr[t].connPromise = 0,
                            !.mgr[t].connectionRetryCount = 0], c, "r_init")

TimerFires(c, maxCalls, maxOpens) ==
  /\ c \in 1..Len(calls)
  /\ calls[c].pc = "r_timer"
  /\ Step(RetryAfterDelay(World, c), maxCalls, maxOpens)

Init ==
  /\ dbVersion = 0
  /\ objectStores = [s \in StoreNames |-> NewStore]
  /\ mgr = [t \in Tabs |-> NewManager]
  /\ insts = <<>>
  /\ instance = [t \in Tabs |-> 0]
  /\ conns = <<>>
  /\ opens = <<>>
  /\ calls = <<>>
  /\ vcQueue = {}
  /\ msgs = [t \in Tabs |-> 0]
  /\ nForced = 0
  /\ nTx = 0
  /\ page = [t \in Tabs |->
              [unregister |-> {}, invoked |-> [cb \in Callbacks |-> 0]]]
  /\ registry = [instances |-> [t \in Tabs |-> [n \in DbNames |-> 0]],
                 managers |-> <<>>, returned |-> {}]
\* ------------------------------------------------ the engine: transactions
\* A transaction's requests run once no transaction created before it on an
\* overlapping scope is still live, unless both only read.
Conflicts(c) ==
  \E d \in 1..Len(calls) :
    /\ d # c
    /\ LiveTx(calls[d])
    /\ calls[d].tx < calls[c].tx
    /\ calls[d].store = calls[c].store
    /\ (calls[d].mode = "readwrite" \/ calls[c].mode = "readwrite")

\* A get that forgets the null default.
GetResultNoDefault(rec, key) == rec.value[key]

\* UserPreferencesStoreManager.get(), line 65:
\* userPreferences?.value?.[key] ?? null
GetResult(rec, key) ==
  IF ~rec.present THEN Null
  ELSE IF rec.value[key] \in {Undefined, Null} THEN Null
  ELSE rec.value[key]

\* request.onsuccess of getStoreValue(), line 288.
OnGetSuccess(w, c) ==
  LET call == w.calls[c]
      rec == w.stores[call.store].records[call.owner]
      w1 == [w EXCEPT !.calls[c].rec = rec, !.calls[c].txState = "complete"]
  IN ResolveCall(w1, c, IF call.op = "get" THEN GetResult(rec, call.field)
                        ELSE "record")

\* A setStoreValue that resolves on the put request's success.
OnPutSuccessResolves(w, c) ==
  ResolveCall([w EXCEPT !.calls[c].txState = "done"], c, "request")

\* The put request of setStoreValue() succeeds: no handler is registered for
\* it (lines 302-304), the call keeps waiting for the transaction.
OnPutSuccess(w, c) ==
  [w EXCEPT !.calls[c].pc = "tx_commit", !.calls[c].txState = "done"]

\* store.put(value), line 302, as the engine applies it at commit: the record
\* under the value's key is replaced.
PutRecord(records, owner, value) ==
  [records EXCEPT ![owner] = [present |-> TRUE, value |-> value]]

\* transaction.oncomplete of setStoreValue(), line 303.
OnComplete(w, c) ==
  ResolveCall([w EXCEPT !.calls[c].txState = "complete"], c, "request")

\* request.onerror of getStoreValue() (line 289); for setStoreValue() the
\* request's error event bubbles to transaction.onerror (line 304).
OnRequestError(w, c, err) ==
  Reject([w EXCEPT !.calls[c].txState = "aborted"], c, err)

\* transaction.onabort is the handler transaction() set (lines 254-256): it
\* rejects the promise transaction() returned, which line 258 has resolved.
OnAbort(w, c) ==
  [w EXCEPT !.calls[c].pc = "tx_aborted", !.calls[c].txState = "aborted"]

TxLive(c) ==
  /\ c \in 1..Len(calls)
  /\ LiveTx(calls[c])

TxRequestSuccess(c) ==
  /\ TxLive(c)
  /\ calls[c].pc = "tx_req"
  /\ ~conns[calls[c].txConn].forced
  /\ ~Conflicts(c)
  /\ SetWorld(IF IsRead(calls[c].op) THEN OnGetSuccess(World, c)
              ELSE OnPutSuccess(World, c))

\* The request fails, or the engine aborts the transaction with the request
\* still pending (the request then gets an AbortError error event).
TxRequestError(c, err) ==
  /\ TxLive(c)
  /\ calls[c].pc = "tx_req"
  /\ SetWorld(OnRequestError(World, c, err))

TxComplete(c) ==
  /\ TxLive(c)
  /\ calls[c].pc = "tx_commit"
  /\ ~conns[calls[c].txConn].forced
  /\ LET call == calls[c]
         w1 == [World EXCEPT !.stores[call.store].records =
                  PutRecord(@, call.owner, call.value)]
     IN SetWorld(OnComplete(w1, c))

\* The engine aborts the transaction after its request succeeded (the commit
\* fails, or the connection is closed abnormally): only abort is fired.
TxAbort(c) ==
  /\ TxLive(c)
  /\ calls[c].pc = "tx_commit"
  /\ SetWorld(OnAbort(World, c))

\* ------------------------------------------------------------- whole model
\* Two tabs on the Connection Manager.
ManagerNext(maxCalls, maxOpens) ==
  \/ \E t \in Tabs : CallInitialize(t, maxCalls, maxOpens)
  \/ \E t \in Tabs :
       CallCreateObjectStore(t, STORE_NAME, "username", maxCalls, maxOpens)
  \/ \E t \in Tabs, op \in {"getStoreValue", "setStoreValue"} :
       CallManager(t, op, STORE_NAME, "A", OneField("a", "1"), maxCalls, maxOpens)
  \/ \E t \in Tabs :
       CallStore(t, "A", "storeInitialize", "a", EmptyMap, maxCalls, maxOpens)
  \/ \E r \in 1..Len(opens) : OpenFireVersionChange(r)
  \/ \E r \in 1..Len(opens) : OpenSuccess(r, FALSE, 0, maxCalls, maxOpens)
  \/ \E r \in 1..Len(opens) : OpenError(r, maxCalls, maxOpens)
  \/ \E cn \in 1..Len(conns) : DeliverVersionChange(cn, maxCalls, maxOpens)
  \/ \E t \in Tabs : DeliverBroadcast(t, maxCalls, maxOpens)
  \/ \E c \in 1..Len(calls) : TimerFires(c, maxCalls, maxOpens)
  \/ \E c \in 1..Len(calls) : TxRequestSuccess(c)
  \/ \E c \in 1..Len(calls), err \in {"UnknownError", "AbortError"} :
       TxRequestError(c, err)
  \/ \E c \in 1..Len(calls) : TxComplete(c)
  \/ \E c \in 1..Len(calls) : TxAbort(c)

\* The engine closing connections abnormally.
FaultNext(maxCalls, maxOpens) ==
  \/ \E r \in 1..Len(opens) : OpenSuccess(r, TRUE, MaxForced, maxCalls, maxOpens)
  \/ \E cn \in 1..Len(conns) : ForcedClose(cn, MaxForced)

Next == ManagerNext(MaxCalls, MaxOpens)

Spec == Init /\ [][Next]_vars

\* The same two tabs with room for one more call and open request (the
\* cross-tab cases that take three calls to set up), and with an engine that
\* may close connections abnormally.
NextTabs ==
  \/ ManagerNext(MaxTabCalls, MaxTabOpens)
  \/ FaultNext(MaxTabCalls, MaxTabOpens)

SpecTabs == Init /\ [][NextTabs]_vars

\* One tab on the Collection Store, with every owner, key and value.
NextStore ==
  \/ \E u \in Owners, k \in Fields :
       CallStore(1, u, "get", k, EmptyMap, MaxStoreCalls, MaxStoreOpens)
  \/ \E u \in Owners, v \in SetArgs :
       CallStore(1, u, "set", "a", v, MaxStoreCalls, MaxStoreOpens)
  \/ \E r \in 1..Len(opens) :
       OpenSuccess(r, FALSE, 0, MaxStoreCalls, MaxStoreOpens)
  \/ \E r \in 1..Len(opens) : OpenError(r, MaxStoreCalls, MaxStoreOpens)
  \/ \E c \in 1..Len(calls) : TxRequestSuccess(c)
  \/ \E c \in 1..Len(calls) : TxRequestError(c, "UnknownError")
  \/ \E c \in 1..Len(calls) : TxComplete(c)
  \/ \E c \in 1..Len(calls) : TxAbort(c)

SpecStore == Init /\ [][NextStore]_vars

\* One tab, one owner: set({a: 1}), set({b: 2}) and get in any order.
NextMerge ==
  \/ \E k \in Fields :
       CallStore(1, "A", "get", k, EmptyMap, MaxMergeCalls, MaxMergeOpens)
  \/ \E v \in {OneField("a", "1"), OneField("b", "2")} :
       CallStore(1, "A", "set", "a", v, MaxMergeCalls, MaxMergeOpens)
  \/ \E r \in 1..Len(opens) :
       OpenSuccess(r, FALSE, 0, MaxMergeCalls, MaxMergeOpens)
  \/ \E c \in 1..Len(calls) : TxRequestSuccess(c)
  \/ \E c \in 1..Len(calls) : TxComplete(c)

SpecMerge == Init /\ [][NextMerge]_vars

\* One tab whose connections the engine keeps closing: the retry path of
\* transaction().
NextRetry ==
  \/ \E op \in {"transaction", "getStoreValue"} :
       CallManager(1, op, STORE_NAME, "A", EmptyMap, MaxRetryCalls, MaxRetryOpens)
  \/ CallCreateObjectStore(1, STORE_NAME, "username", MaxRetryCalls, MaxRetryOpens)
  \/ \E r \in 1..Len(opens), early \in BOOLEAN :
       OpenSuccess(r, early, MaxRetryOpens, MaxRetryCalls, MaxRetryOpens)
  \/ \E r \in 1..Len(opens) : OpenError(r, MaxRetryCalls, MaxRetryOpens)
  \/ \E cn \in 1..Len(conns) : ForcedClose(cn, MaxRetryOpens)
  \/ \E c \in 1..Len(calls) : TimerFires(c, MaxRetryCalls, MaxRetryOpens)
  \/ \E c \in 1..Len(calls) : TxRequestSuccess(c)
  \/ \E c \in 1..Len(calls) : TxRequestError(c, "AbortError")

SpecRetry == Init /\ [][NextRetry]_vars

\* Two tabs whose pages register and unregister version-change listeners.
NextListen ==
  \/ \E t \in Tabs : CallInitialize(t, MaxListenCalls, MaxListenOpens)
  \/ \E t \in Tabs :
       CallCreateObjectStore(t, STORE_NAME, "username", MaxListenCalls,
                             MaxListenOpens)
  \/ \E t \in Tabs :
       CallStore(t, "A", "storeInitialize", "a", EmptyMap, MaxListenCalls,
                 MaxListenOpens)
  \/ \E t \in Tabs, cb \in Callbacks : CallOnVersionChange(t, cb)
  \/ \E t \in Tabs, cb \in Callbacks : CallUnregister(t, cb)
  \/ \E r \in 1..Len(opens) : OpenFireVersionChange(r)
  \/ \E r \in 1..Len(opens) :
       OpenSuccess(r, FALSE, 0, MaxListenCalls, MaxListenOpens)
  \/ \E cn \in 1..Len(conns) :
       DeliverVersionChange(cn, MaxListenCalls, MaxListenOpens)
  \/ \E t \in Tabs : DeliverBroadcast(t, MaxListenCalls, MaxListenOpens)

SpecListen == Init /\ [][NextListen]_vars

\* The pages of two tabs obtaining managers, by getInstance and by new.
NextRegistry ==
  \/ \E t \in Tabs, n \in DbNames : CallGetInstance(t, n)
  \/ \E t \in Tabs, n \in DbNames : CallNew(t, n)

SpecRegistry == Init /\ [][NextRegistry]_vars
\* ------------------------------------------------------------------ claims
CallIds == 1..Len(calls)
OpenIds == 1..Len(opens)
InitializeCalls(t) == {c \in CallIds : calls[c].tab = t /\ calls[c].op = "initialize"}
InitOpens(t) == {r \in OpenIds : opens[r].tab = t /\ opens[r].kind = "init"}
NoAttemptCompleted(t) == \A r \in OpenIds : opens[r].tab = t => ~Settled(opens[r])

\* C1: while no connection attempt of a tab has completed, all its
\* initialize() calls share one open request (at most one was made, and each
\* call awaits it); calls that awaited the same request end alike: all
\* resolved with the same connection, or all rejected.
C1_InitializeCoalesces ==
  \A t \in Tabs :
    /\ NoAttemptCompleted(t) =>
         /\ Cardinality(InitOpens(t)) <= 1
         /\ InitializeCalls(t) # {} => Cardinality(InitOpens(t)) = 1
         /\ \A c \in InitializeCalls(t) :
              calls[c].status = "pending" /\ calls[c].await \in InitOpens(t)
    /\ \A c, d \in InitializeCalls(t) :
         calls[c].await = calls[d].await =>
           /\ calls[c].status = calls[d].status
           /\ calls[c].conn = calls[d].conn
           /\ calls[c].result = calls[d].result

\* Two initialize() calls of one tab resolved with the same connection, from
\* the only open request initialize() made in that tab.
C1_Witness ==
  \E t \in Tabs : \E c, d \in InitializeCalls(t) :
    /\ c # d
    /\ calls[c].status = "resolved" /\ calls[d].status = "resolved"
    /\ calls[c].conn # 0 /\ calls[c].conn = calls[d].conn
    /\ Cardinality(InitOpens(t)) = 1
\* C3: a transaction() whose every attempt fails with a stale-connection
\* error retries at most maxRetries times, the manager's retry counter stays
\* within maxRetries, and the rejection with the max-retries error comes
\* after exactly maxRetries retries.
C3_RetryBound ==
  /\ \A t \in Tabs : mgr[t].connectionRetryCount <= maxRetries
  /\ \A c \in CallIds :
       /\ calls[c].retries <= maxRetries
       /\ (calls[c].status = "rejected" /\ calls[c].result = MaxRetryError)
            => calls[c].retries = maxRetries
\* C5: createObjectStore() never asks for a version below the one the
\* database had when it was called, and when it resolves the connection is at
\* exactly that version plus one and holds the named collection.
C5_VersionPlusOne ==
  \A c \in CallIds :
    calls[c].op = "createObjectStore" =>
      /\ opens[calls[c].await].version >= calls[c].ver0
      /\ calls[c].status = "resolved" =>
           /\ conns[calls[c].conn].version = calls[c].ver0 + 1
           /\ calls[c].store \in conns[calls[c].conn].stores
\* C6: a versionchange event fired at the open connection a manager holds,
\* or a VERSION_CHANGE message received while it holds an open connection,
\* closes that connection and resets the manager; and a transaction is only
\* ever created on a connection that was open (or has just been opened).
C6_SignalClosesAndResets ==
  [][ /\ \A cn \in 1..Len(conns) :
           ( /\ cn \in vcQueue /\ cn \notin vcQueue'
             /\ ~conns[cn].closed
             /\ mgr[conns[cn].tab].db = cn )
           => /\ conns'[cn].closed
              /\ ~mgr'[conns[cn].tab].isInitialized
              /\ mgr'[conns[cn].tab].connPromise = 0
      /\ \A t \in Tabs :
           ( /\ msgs'[t] < msgs[t]
             /\ mgr[t].db # 0
             /\ ~conns[mgr[t].db].closed )
           => /\ conns'[mgr[t].db].closed
              /\ mgr'[t].db # mgr[t].db
              /\ mgr'[t].connPromise # 0
              /\ mgr'[t].connPromise # mgr[t].connPromise
      /\ \A c \in 1..Len(calls') :
           calls'[c].tx > nTx =>
             \/ calls'[c].txConn > Len(conns)
             \/ ~conns[calls'[c].txConn].closed
    ]_vars

\* C7: once every versionchange event of a pending upgrade has been
\* delivered, no manager still holds an open connection in the Connected
\* state (so the upgrade is not blocked by a connection a manager holds).
C7_HeldConnectionsClose ==
  \A r \in OpenIds :
    (opens[r].state = "fired" /\ vcQueue = {}) =>
      \A t \in Tabs :
        (mgr[t].isInitialized /\ mgr[t].db # 0) => conns[mgr[t].db].closed
\* C10: a call whose transaction has ended, by complete, by a request error
\* or by an abort of the engine, has settled (resolved or rejected).
C10_EndedTransactionSettles ==
  \A c \in CallIds :
    calls[c].txState \in {"complete", "aborted"} => calls[c].status # "pending"
\* C11: an operation whose transaction the engine aborted is rejected with
\* the 'Transaction was aborted' error, and an error caught in transaction()
\* that is not of the stale-connection class rejects the call with that same
\* error (so the call is not retrying).
C11_AbortAndOtherErrorsPropagate ==
  \A c \in CallIds :
    /\ ( /\ calls[c].txState = "aborted"
         /\ (calls[c].pc = "tx_aborted" \/ calls[c].result = "AbortError") )
       => (calls[c].status = "rejected" /\ calls[c].result = TxAborted)
    /\ (calls[c].caught # "" /\ calls[c].caught \notin StaleErrors)
       => (calls[c].status = "rejected" /\ calls[c].result = calls[c].caught)
\* C12: in a step in which a versionchange event or a VERSION_CHANGE message
\* closes an open connection of a tab, every callback registered in that tab
\* is invoked once; and a callback is invoked only while it is registered
\* (never after its unregister function was called).
C12_ListenersNotified ==
  [][ \A t \in Tabs :
        /\ ( /\ \/ \E cn \in vcQueue : cn \notin vcQueue' /\ conns[cn].tab = t
                \/ msgs'[t] < msgs[t]
             /\ \E cn \in OpenConns : conns[cn].tab = t /\ conns'[cn].closed )
           => \A cb \in mgr[t].versionChangeListeners :
                page'[t].invoked[cb] = page[t].invoked[cb] + 1
        /\ \A cb \in Callbacks :
             page'[t].invoked[cb] # page[t].invoked[cb]
               => cb \in mgr[t].versionChangeListeners
    ]_vars
\* C13: in the step in which the open request of initialize() errors, every
\* call awaiting it is rejected with 'Failed to open database' and the
\* manager is left not initialized with no connection promise; and an
\* initialize() call never returns a failed request: with no connection
\* promise held it makes a new open request and awaits that one.
C13_OpenErrorRejectsAndResets ==
  [][ /\ \A r \in OpenIds :
           ( /\ opens[r].kind = "init"
             /\ ~Settled(opens[r])
             /\ opens'[r].state = "error" )
           => /\ \A i \in 1..Len(opens[r].waiters) :
                   /\ calls'[opens[r].waiters[i]].status = "rejected"
                   /\ calls'[opens[r].waiters[i]].result = FailedToOpen
              /\ ~mgr'[opens[r].tab].isInitialized
              /\ mgr'[opens[r].tab].connPromise = 0
      /\ ( /\ Len(calls') = Len(calls) + 1
           /\ calls'[Len(calls')].op = "initialize" )
         => LET c == Len(calls')
                t == calls'[c].tab
            IN /\ opens'[calls'[c].await].state # "error"
               /\ mgr[t].connPromise = 0 =>
                    /\ Len(opens') = Len(opens) + 1
                    /\ calls'[c].await = Len(opens')
                    /\ opens'[Len(opens')].kind = "init"
    ]_vars

\* An initialize() call was rejected with 'Failed to open database' by its
\* failed open request, and a later initialize() call of the same tab awaits
\* another open request.
C13_Witness ==
  \E t \in Tabs : \E c, d \in InitializeCalls(t) :
    /\ c < d
    /\ calls[c].status = "rejected"
    /\ calls[c].result = FailedToOpen
    /\ opens[calls[c].await].state = "error"
    /\ calls[d].await # calls[c].await
    /\ ~mgr[t].isInitialized
\* C14: the delays one transaction() call waits before its reconnect
\* attempts are positive and strictly increasing, the n-th being n times the
\* first.
C14_LinearBackoff ==
  \A c \in CallIds :
    \A n \in 1..Len(calls[c].delays) :
      /\ calls[c].delays[1] > 0
      /\ calls[c].delays[n] = calls[c].delays[1] * n
      /\ \A m \in 1..(n - 1) : calls[c].delays[m] < calls[c].delays[n]
\* C15: each tab has at most one manager per database name, the registry
\* names it, and every getInstance(name) and new DatabaseManager(name) of the
\* tab handed out that manager.
C15_OneManagerPerName ==
  \A t \in Tabs, n \in DbNames :
    LET made == {m \in 1..Len(registry.managers) :
                   registry.managers[m] = [tab |-> t, dbName |-> n]}
    IN /\ Cardinality(made) <= 1
       /\ registry.instances[t][n] # 0 => registry.instances[t][n] \in made
       /\ \A h \in registry.returned :
            (h.tab = t /\ h.dbName = n) => h.manager = registry.instances[t][n]

\* One tab got the same manager for one name from getInstance and from new.
C15_Witness ==
  \E g, h \in registry.returned :
    /\ g.tab = h.tab /\ g.dbName = h.dbName
    /\ g.via = "getInstance" /\ h.via = "new"
    /\ g.manager = h.manager /\ g.manager # 0
\* C16: when the open request of a createObjectStore() called for a
\* collection that already existed succeeds, the collections, their key
\* paths and their records are unchanged and the database version has
\* increased by 1.
C16_ExistingCollectionNoChange ==
  [][ \A r \in OpenIds :
        ( /\ opens[r].kind = "create"
          /\ opens[r].existed
          /\ ~Settled(opens[r])
          /\ opens'[r].state = "success" )
        => /\ objectStores' = objectStores
           /\ dbVersion' = dbVersion + 1
    ]_vars
\* ------------------------------------------------ Collection Store claims
Records == objectStores[STORE_NAME].records
GetCalls == {g \in CallIds : calls[g].op = "get"}

\* The set calls under an owner that took or can still take effect.
Writers(o) ==
  {c \in CallIds : /\ calls[c].op = "set"
                   /\ calls[c].owner = o
                   /\ calls[c].txState # "aborted"
                   /\ calls[c].status # "rejected"}

\* Every such set had resolved when get call g was made.
Quiet(g) == Writers(calls[g].owner) \subseteq calls[g].prior

\* Among the set calls S, the one whose transaction was created last.
Latest(S) == CHOOSE c \in S : \A d \in S : calls[d].tx <= calls[c].tx

\* C2: set() merges: a get(k) made after every set of its owner resolved
\* returns the value of the latest set that named k, also when a later set
\* named only other keys.
C2_SetMerges ==
  \A g \in GetCalls :
    LET naming == {c \in Writers(calls[g].owner) :
                     calls[c].value[calls[g].field] # Undefined}
    IN (calls[g].status = "resolved" /\ Quiet(g) /\ naming # {}) =>
         calls[g].result = calls[Latest(naming)].value[calls[g].field]

\* C4: a get(k) made after every set of its owner resolved returns the value
\* the latest set gave k, and null when the owner has no record or the record
\* lacks k; a get whose request was served resolves (no rejection for a
\* missing record or key).
C4_RoundTrip ==
  \A g \in GetCalls :
    /\ calls[g].txState = "complete" => calls[g].status = "resolved"
    /\ (calls[g].status = "resolved" /\ Quiet(g)) =>
         LET W == Writers(calls[g].owner) IN
         IF W # {} /\ calls[Latest(W)].value[calls[g].field] # Undefined
         THEN calls[g].result = calls[Latest(W)].value[calls[g].field]
         ELSE calls[g].result = Null

\* A get(k) resolved with the value a set of the same owner, resolved before
\* the get was made, gave k.
C4_Witness ==
  \E g \in GetCalls : \E c \in calls[g].prior :
    /\ calls[g].status = "resolved"
    /\ calls[c].op = "set"
    /\ calls[c].owner = calls[g].owner
    /\ calls[c].value[calls[g].field] \in Vals
    /\ calls[g].result = calls[c].value[calls[g].field]

\* C8: a set committed for the store of one owner changes what get(k)
\* returns for no other owner, and a get resolves with what the record of
\* the owner it was asked for holds.
C8_OwnerIsolation ==
  [][ /\ \A c \in CallIds :
           ( /\ calls[c].op = "set"
             /\ calls[c].txState = "done"
             /\ calls'[c].txState = "complete" )
           => \A o \in Owners \ {calls[c].username} : \A k \in Fields :
                GetResult(objectStores'[STORE_NAME].records[o], k)
                  = GetResult(Records[o], k)
      /\ \A g \in GetCalls :
           (calls[g].status = "pending" /\ calls'[g].status = "resolved")
           => calls'[g].result = GetResult(Records[calls[g].username], calls[g].field)
    ]_vars

\* A get for one owner returned null for a key that a set, resolved before
\* the get was made, wrote for another owner.
C8_Witness ==
  \E g \in GetCalls : \E c \in calls[g].prior :
    /\ calls[c].op = "set"
    /\ calls[c].username # calls[g].username
    /\ calls[c].value[calls[g].field] \in Vals
    /\ calls[g].status = "resolved"
    /\ calls[g].result = Null
    /\ Records[calls[c].username].present

\* C9: a set resolves only in the step in which its readwrite transaction
\* completes, and the record it wrote is then the committed record of its
\* owner.
C9_ResolvesOnComplete ==
  [][ \A c \in CallIds :
        ( /\ IsWrite(calls[c].op)
          /\ calls[c].status = "pending"
          /\ calls'[c].status = "resolved" )
        => /\ calls[c].txState = "done"
           /\ calls'[c].txState = "complete"
           /\ objectStores'[calls[c].store].records[calls[c].owner]
                = [present |-> TRUE, value |-> calls[c].value]
    ]_vars

\* A set has resolved, its transaction complete and its record committed.
C9_Witness ==
  \E c \in CallIds :
    /\ IsWrite(calls[c].op)
    /\ calls[c].status = "resolved"
    /\ calls[c].txState = "complete"
    /\ Records[calls[c].owner] = [present |-> TRUE, value |-> calls[c].value]

\* The calls on store instance i that started before its isInitialized flag
\* was set (they awaited the manager's initialize()).
EarlyCalls(i) == {c \in CallIds : calls[c].inst = i /\ calls[c].await # 0}

\* The errors a failing engine gives a call (a failed open, a failed request).
EngineErrors == {FailedToOpen, "UnknownError"}

\* C17: when two or more calls on one store start before its flag is set,
\* none of them fails unless the engine fails, createObjectStore is invoked
\* at most once, and no open request asks for a version below the current
\* one.
C17_ConcurrentStoreInitialize ==
  \A i \in 1..Len(insts) :
    Cardinality(EarlyCalls(i)) >= 2 =>
      /\ \A c \in EarlyCalls(i) :
           calls[c].status = "rejected" => calls[c].result \in EngineErrors
      /\ Cardinality({r \in OpenIds : /\ opens[r].kind = "create"
                                      /\ opens[r].tab = insts[i].tab}) <= 1
      /\ \A r \in OpenIds : opens[r].error # "VersionError"

\* C18: a manager whose isInitialized flag is set holds a connection (db is
\* not null) that has not been closed.
C18_InitializedHoldsOpenConnection ==
  \A t \in Tabs :
    mgr[t].isInitialized =>
      /\ mgr[t].db # 0
      /\ ~conns[mgr[t].db].closed

\* C19: an initialize() call resolves with the connection its manager holds
\* in db: a call that resolves as it is made (from the connection promise
\* the manager keeps) gets the connection in db, and a call resolved by its
\* open request gets the connection that request has just stored in db.
C19_ResolvesWithHeldConnection ==
  [][ \A c \in 1..Len(calls') :
        (calls'[c].op = "initialize" /\ calls'[c].status = "resolved") =>
          /\ c \notin CallIds => calls'[c].conn = mgr'[calls'[c].tab].db
          /\ (c \in CallIds /\ calls[c].status = "pending") =>
               /\ calls'[c].conn = Len(conns')
               /\ Len(conns') = Len(conns) + 1
    ]_vars
====
